---- MODULE Spec2Model ----
(***************************************************************************)
(* Minimum spanning tree trace producers (Kruskal, Prim) and their         *)
(* union-find structures, modelled from src/Minimum_Spanning_Tree.py and   *)
(* src/mst_visualizer.py.                                                  *)
(*                                                                         *)
(* Spec    : the __main__ run of Minimum_Spanning_Tree.py: a graph is      *)
(*           built, kruskal_generator is consumed record by record, then   *)
(*           prim_generator.  One action = one resumption of a generator   *)
(*           up to its next yield.                                         *)
(* SpecUF  : arbitrary sequences of find/union calls on a DSU              *)
(*           (Minimum_Spanning_Tree.py) or a DisjointSet                   *)
(*           (mst_visualizer.py) object.                                   *)
(* SpecLive: Spec with a consumer that never stops requesting records.     *)
(* SpecViz : the MSTVisualizer window of mst_visualizer.py: canvas clicks, *)
(*           the weight prompt, the two buttons and the callbacks that     *)
(*           root.after schedules.  One action = one event handler.        *)
(* SpecVizLive: SpecViz with timers that do fire.                          *)
(***************************************************************************)
EXTENDS Integers, Sequences, FiniteSets

\* ---------------------------------------------------------------- bounds
N == 4
MaxEdges == 4
MaxWeight == 2
MaxVertices == 3

VARIABLES
    edgeList,   \* edges_with_weights handed to G.add_edge, in call order
    pc,         \* position of the run: which generator, suspended at which yield
    dsu,        \* kruskal_generator: dsu.parent
    edges,      \* kruskal_generator: the sorted edge list
    kIdx,       \* kruskal_generator: number of edges the for loop has taken
    kMst,       \* kruskal_generator: mst_edges
    kTrace,     \* records yielded by kruskal_generator so far
    start,      \* prim_generator: start_node
    visited,    \* prim_generator: visited
    pMst,       \* prim_generator: mst_edges
    heap,       \* prim_generator: edges_heap, entries in push order
    popped,     \* prim_generator: the (weight, u, v) last popped
    pTrace,     \* records yielded by prim_generator so far
    ufClass,    \* SpecUF: "DSU" or "DisjointSet"
    ufParent,   \* SpecUF: parent
    ufRank,     \* SpecUF: rank (DisjointSet only)
    ufCall,     \* SpecUF: the last call made, <<name, args...>>
    ufRet,      \* SpecUF: what the last call returned
    total_vertices,             \* MSTVisualizer.total_vertices
    vertex_positions,           \* vertex id -> the canvas spot it was placed on
    viz_edges,                  \* MSTVisualizer.edges, (u, v, w) in creation order
    edge_items,                 \* keys of MSTVisualizer.edge_items
    vertex_click_buffer,        \* MSTVisualizer.vertex_click_buffer
    placing_vertices_remaining, \* MSTVisualizer.placing_vertices_remaining
    is_animating,               \* MSTVisualizer.is_animating
    status_var,                 \* text shown in the status label
    steps,                      \* animate_kruskal: steps
    anim_mst_edges,             \* animate_kruskal: mst_edges
    after_callback,             \* the callback root.after has scheduled, or None
    kruskal_total_weight        \* MSTVisualizer.kruskal_total_weight

genVars == <<edgeList, pc, dsu, edges, kIdx, kMst, kTrace,
             start, visited, pMst, heap, popped, pTrace>>
ufVars == <<ufClass, ufParent, ufRank, ufCall, ufRet>>
vizVars == <<total_vertices, vertex_positions, viz_edges, edge_items, vertex_click_buffer,
             placing_vertices_remaining, is_animating, status_var, steps, anim_mst_edges,
             after_callback, kruskal_total_weight>>
vars == <<genVars, ufVars, vizVars>>

Nodes == 0 .. (N - 1)
None == <<>>

\* ------------------------------------------------------- sequence helpers
RECURSIVE SumSeq(_)
SumSeq(s) == IF s = <<>> THEN 0 ELSE Head(s) + SumSeq(Tail(s))

\* --------------------------------------------------------------- the graph
\* One add_edge call: two distinct nodes and a weight.  add_edge(u, v) and
\* add_edge(v, u) build the same undirected graph, so calls are drawn with u < v.
EdgeCalls ==
    {c \in {<<u, v, w>> : u \in Nodes, v \in Nodes, w \in 1 .. MaxWeight} : c[1] < c[2]}

\* An edge list is well formed when no pair of nodes is joined twice.
WellFormed(el) ==
    \A i, j \in 1 .. Len(el) :
        i # j => <<el[i][1], el[i][2]>> # <<el[j][1], el[j][2]>>

\* The well-formed edge lists of at most n calls.
RECURSIVE EdgeLists(_)
EdgeLists(n) ==
    IF n = 0 THEN {<<>>}
    ELSE LET shorter == EdgeLists(n - 1)
         IN  shorter \cup
             {el \in {Append(s, c) : s \in {t \in shorter : Len(t) = n - 1}, c \in EdgeCalls} :
                 WellFormed(el)}

\* G[u][v]['weight']
Weight(el, u, v) ==
    LET i == CHOOSE i \in 1 .. Len(el) : {el[i][1], el[i][2]} = {u, v}
    IN  el[i][3]

\* G.neighbors(v): the adjacency of v in insertion order.
RECURSIVE GNeighbors(_, _)
GNeighbors(el, v) ==
    IF el = <<>> THEN <<>>
    ELSE LET e == Head(el)
             rest == GNeighbors(Tail(el), v)
         IN  IF e[1] = v THEN <<e[2]>> \o rest
             ELSE IF e[2] = v THEN <<e[1]>> \o rest
             ELSE rest

\* G.edges(data=True): node by node in node order, each node's adjacency in
\* insertion order, an edge reported from the endpoint that comes first.
RECURSIVE EdgesFrom(_, _)
EdgesFrom(el, n) ==
    IF n = N THEN <<>>
    ELSE SelectSeq(el, LAMBDA e : e[1] = n) \o EdgesFrom(el, n + 1)

GEdges(el) == EdgesFrom(el, 0)

\* ------------------------------------------ DSU (Minimum_Spanning_Tree.py)
\* DSU.__init__: every node its own parent.
DSUInit == [n \in Nodes |-> n]

\* DSU.find with path compression: the root of i and the rewritten parent map.
RECURSIVE DSUFind(_, _)
DSUFind(parent, i) ==
    IF parent[i] = i THEN [root |-> i, parent |-> parent]
    ELSE LET r == DSUFind(parent, parent[i])
         IN  [root |-> r.root, parent |-> [r.parent EXCEPT ![i] = r.root]]

\* Mutant: True is returned whether or not a merge happened.
DSUUnionAlwaysTrue(parent, x, y) ==
    LET fx == DSUFind(parent, x)
        fy == DSUFind(fx.parent, y)
    IN  IF fx.root # fy.root
        THEN [ret |-> TRUE, parent |-> [fy.parent EXCEPT ![fx.root] = fy.root]]
        ELSE [ret |-> TRUE, parent |-> fy.parent]

\* Mutant: the arguments are linked directly, without looking up their roots.
DSUUnionNoFind(parent, x, y) ==
    IF x # y
    THEN [ret |-> TRUE, parent |-> [parent EXCEPT ![x] = y]]
    ELSE [ret |-> FALSE, parent |-> parent]

\* DSU.union: root_x is hung under root_y; True iff a merge happened.
DSUUnion(parent, x, y) ==
    LET fx == DSUFind(parent, x)
        fy == DSUFind(fx.parent, y)
    IN  IF fx.root # fy.root
        THEN [ret |-> TRUE, parent |-> [fy.parent EXCEPT ![fx.root] = fy.root]]
        ELSE [ret |-> FALSE, parent |-> fy.parent]

\* ------------------------------------------ DisjointSet (mst_visualizer.py)
\* DisjointSet.__init__: parent = list(range(n)), rank = [0] * n.
DSInitParent == [n \in Nodes |-> n]
DSInitRank == [n \in Nodes |-> 0]

\* Mutant: the root is looked up and no link is rewritten.
RECURSIVE DSFindNoCompress(_, _)
DSFindNoCompress(parent, x) ==
    IF parent[x] # x
    THEN [root |-> DSFindNoCompress(parent, parent[x]).root, parent |-> parent]
    ELSE [root |-> parent[x], parent |-> parent]

\* DisjointSet.find with path compression.
RECURSIVE DSFind(_, _)
DSFind(parent, x) ==
    IF parent[x] # x
    THEN LET r == DSFind(parent, parent[x])
         IN  [root |-> r.root, parent |-> [r.parent EXCEPT ![x] = r.root]]
    ELSE [root |-> parent[x], parent |-> parent]

\* Mutant: the early return tests the arguments, not their roots.
DSUnionComparesArgs(parent, rank, x, y) ==
    LET fx == DSFind(parent, x)
        fy == DSFind(fx.parent, y)
        rx == fx.root
        ry == fy.root
        p == fy.parent
    IN  IF x = y THEN [ret |-> FALSE, parent |-> p, rank |-> rank]
        ELSE IF rank[rx] < rank[ry]
             THEN [ret |-> TRUE, parent |-> [p EXCEPT ![rx] = ry], rank |-> rank]
        ELSE IF rank[rx] > rank[ry]
             THEN [ret |-> TRUE, parent |-> [p EXCEPT ![ry] = rx], rank |-> rank]
        ELSE [ret |-> TRUE, parent |-> [p EXCEPT ![ry] = rx],
              rank |-> [rank EXCEPT ![rx] = rank[rx] + 1]]

\* Mutant: on equal rank the root of x goes under the root of y.
DSUnionTieUnderY(parent, rank, x, y) ==
    LET fx == DSFind(parent, x)
        fy == DSFind(fx.parent, y)
        rx == fx.root
        ry == fy.root
        p == fy.parent
    IN  IF rx = ry THEN [ret |-> FALSE, parent |-> p, rank |-> rank]
        ELSE IF rank[rx] < rank[ry]
             THEN [ret |-> TRUE, parent |-> [p EXCEPT ![rx] = ry], rank |-> rank]
        ELSE IF rank[rx] > rank[ry]
             THEN [ret |-> TRUE, parent |-> [p EXCEPT ![ry] = rx], rank |-> rank]
        ELSE [ret |-> TRUE, parent |-> [p EXCEPT ![rx] = ry],
              rank |-> [rank EXCEPT ![ry] = rank[ry] + 1]]

\* DisjointSet.union by rank.
DSUnion(parent, rank, x, y) ==
    LET fx == DSFind(parent, x)
        fy == DSFind(fx.parent, y)
        rx == fx.root
        ry == fy.root
        p == fy.parent
    IN  IF rx = ry THEN [ret |-> FALSE, parent |-> p, rank |-> rank]
        ELSE IF rank[rx] < rank[ry]
             THEN [ret |-> TRUE, parent |-> [p EXCEPT ![rx] = ry], rank |-> rank]
        ELSE IF rank[rx] > rank[ry]
             THEN [ret |-> TRUE, parent |-> [p EXCEPT ![ry] = rx], rank |-> rank]
        ELSE [ret |-> TRUE, parent |-> [p EXCEPT ![ry] = rx],
              rank |-> [rank EXCEPT ![rx] = rank[rx] + 1]]

\* ------------------------------------------------------ kruskal_generator
\* Mutant: an edge goes in front of the edges of its own weight.
InsertBeforeEqual(s, x) ==
    LET k == Cardinality({i \in 1 .. Len(s) : s[i][3] < x[3]})
    IN  SubSeq(s, 1, k) \o <<x>> \o SubSeq(s, k + 1, Len(s))

\* sorted(..., key=weight): ascending by weight, equal keys keep their order.
\* (The list is bound to t so that it is evaluated once.)
InsertByWeight(s, x) ==
    CHOOSE r \in {LET k == Cardinality({i \in 1 .. Len(t) : t[i][3] <= x[3]})
                  IN  SubSeq(t, 1, k) \o <<x>> \o SubSeq(t, k + 1, Len(t)) : t \in {s}} : TRUE

\* Mutant: the edges are left in the order the graph reports them.
Unsorted(s) == s

RECURSIVE SortedByWeight(_)
SortedByWeight(s) ==
    IF s = <<>> THEN <<>>
    ELSE InsertByWeight(SortedByWeight(SubSeq(s, 1, Len(s) - 1)), s[Len(s)])

\* total_weight = sum(G[u][v]['weight'] for u, v in mst_edges)
TotalWeight(el, mst) == SumSeq([i \in 1 .. Len(mst) |-> Weight(el, mst[i][1], mst[i][2])])

KRecord(label, mst, considered, status) ==
    [step |-> label, mst_edges |-> mst, considered_edge |-> considered, status |-> status]

\* First resumption: sort, build the DSU, yield the initial record (lines 36-40).
KruskalInitial ==
    /\ pc = "k_new"
    /\ edges' = SortedByWeight(GEdges(edgeList))
    /\ dsu' = DSUInit
    /\ kMst' = <<>>
    /\ kIdx' = 0
    /\ kTrace' = Append(kTrace, KRecord(<<"Initial Graph">>, <<>>, None, ""))
    /\ pc' = "k_loop"
    /\ UNCHANGED <<edgeList, start, visited, pMst, heap, popped, pTrace, ufVars, vizVars>>

\* The for loop takes the next edge and yields 'considering' (lines 42-46).
KruskalConsider ==
    /\ pc = "k_loop"
    /\ kIdx < Len(edges)
    /\ LET e == edges[kIdx + 1]
       IN  kTrace' = Append(kTrace,
               KRecord(<<"Checking edge", e[1], e[2], e[3]>>, kMst, <<e[1], e[2]>>,
                       "considering"))
    /\ kIdx' = kIdx + 1
    /\ pc' = "k_considering"
    /\ UNCHANGED <<edgeList, dsu, edges, kMst, start, visited, pMst, heap, popped, pTrace, ufVars, vizVars>>

\* Mutant: a rejected edge yields no record.
KruskalDecideSilentReject ==
    /\ pc = "k_considering"
    /\ LET e == edges[kIdx]
           un == DSUUnion(dsu, e[1], e[2])
       IN  /\ dsu' = un.parent
           /\ IF un.ret
              THEN /\ kMst' = Append(kMst, <<e[1], e[2]>>)
                   /\ kTrace' = Append(kTrace,
                          KRecord(<<"Added edge", e[1], e[2]>>, kMst', <<e[1], e[2]>>, "added"))
              ELSE /\ kMst' = kMst
                   /\ kTrace' = kTrace
    /\ pc' = "k_loop"
    /\ UNCHANGED <<edgeList, edges, kIdx, start, visited, pMst, heap, popped, pTrace, ufVars, vizVars>>

\* Mutant: the edge is appended whatever union answered.
KruskalDecideAppendsAlways ==
    /\ pc = "k_considering"
    /\ LET e == edges[kIdx]
           un == DSUUnion(dsu, e[1], e[2])
       IN  /\ dsu' = un.parent
           /\ kMst' = Append(kMst, <<e[1], e[2]>>)
           /\ IF un.ret
              THEN kTrace' = Append(kTrace,
                       KRecord(<<"Added edge", e[1], e[2]>>, kMst', <<e[1], e[2]>>, "added"))
              ELSE kTrace' = Append(kTrace,
                       KRecord(<<"Rejected edge", e[1], e[2]>>, kMst', <<e[1], e[2]>>,
                               "rejected"))
    /\ pc' = "k_loop"
    /\ UNCHANGED <<edgeList, edges, kIdx, start, visited, pMst, heap, popped, pTrace, ufVars, vizVars>>

\* dsu.union decides the edge: 'added' or 'rejected' (lines 48-54).
KruskalDecide ==
    /\ pc = "k_considering"
    /\ LET e == edges[kIdx]
           un == DSUUnion(dsu, e[1], e[2])
       IN  /\ dsu' = un.parent
           /\ IF un.ret
              THEN /\ kMst' = Append(kMst, <<e[1], e[2]>>)
                   /\ kTrace' = Append(kTrace,
                          KRecord(<<"Added edge", e[1], e[2]>>, kMst', <<e[1], e[2]>>, "added"))
              ELSE /\ kMst' = kMst
                   /\ kTrace' = Append(kTrace,
                          KRecord(<<"Rejected edge", e[1], e[2]>>, kMst, <<e[1], e[2]>>,
                                  "rejected"))
    /\ pc' = "k_loop"
    /\ UNCHANGED <<edgeList, edges, kIdx, start, visited, pMst, heap, popped, pTrace, ufVars, vizVars>>

\* The loop is exhausted: total weight and the 'done' record (lines 56-57).
\* Mutant: after the final record the generator is still in its loop.
KruskalDoneRepeats ==
    /\ pc = "k_loop"
    /\ kIdx = Len(edges)
    /\ kTrace' = Append(kTrace,
           KRecord(<<"Final MST Found! Total Weight:", TotalWeight(edgeList, kMst)>>,
                   kMst, None, "done"))
    /\ pc' = "k_loop"
    /\ UNCHANGED <<edgeList, dsu, edges, kIdx, kMst, start, visited, pMst, heap, popped, pTrace, ufVars, vizVars>>

KruskalDone ==
    /\ pc = "k_loop"
    /\ kIdx = Len(edges)
    /\ kTrace' = Append(kTrace,
           KRecord(<<"Final MST Found! Total Weight:", TotalWeight(edgeList, kMst)>>,
                   kMst, None, "done"))
    /\ pc' = "k_done"
    /\ UNCHANGED <<edgeList, dsu, edges, kIdx, kMst, start, visited, pMst, heap, popped, pTrace, ufVars, vizVars>>

\* The generator is exhausted; __main__ goes on to prim_generator (lines 207-212).
KruskalStop ==
    /\ pc = "k_done"
    /\ pc' = "p_new"
    /\ UNCHANGED <<edgeList, dsu, edges, kIdx, kMst, kTrace,
                   start, visited, pMst, heap, popped, pTrace, ufVars, vizVars>>

\* --------------------------------------------------------- prim_generator
\* Python's order on (weight, node1, node2) tuples.
TupleLess(a, b) ==
    \/ a[1] < b[1]
    \/ a[1] = b[1] /\ a[2] < b[2]
    \/ a[1] = b[1] /\ a[2] = b[2] /\ a[3] < b[3]

\* heapq keeps edges_heap as a binary heap; what the generator relies on is
\* heapq's contract: heappush adds the entry and heappop removes and returns the
\* smallest one.  The model keeps the entries in the order they were pushed, so
\* that insertion order can be told apart from tuple order, and the 'heap' field
\* of a record lists the same entries as list(edges_heap), in push order.
HeapPush(hp, entry) == Append(hp, entry)

\* Mutant: the queue is served first in, first out.
HeapFirstIndex(hp) == 1

\* Mutant: among the entries of least weight the first one pushed is served.
HeapFirstLightestIndex(hp) ==
    CHOOSE i \in 1 .. Len(hp) :
        /\ \A j \in 1 .. Len(hp) : hp[i][1] <= hp[j][1]
        /\ \A j \in 1 .. (i - 1) : hp[j][1] # hp[i][1]

\* heapq.heappop returns the smallest entry of the queue.
HeapMinIndex(hp) ==
    CHOOSE i \in 1 .. Len(hp) : \A j \in 1 .. Len(hp) : j # i => TupleLess(hp[i], hp[j])

HeapPop(hp) ==
    LET i == HeapMinIndex(hp)
    IN  [item |-> hp[i], heap |-> SubSeq(hp, 1, i - 1) \o SubSeq(hp, i + 1, Len(hp))]

\* Mutant: every neighbour's edge is pushed, visited or not.
RECURSIVE PushEdgesUnfiltered(_, _, _, _, _)
PushEdgesUnfiltered(el, hp, v, nbrs, vis) ==
    IF nbrs = <<>> THEN hp
    ELSE LET nb == Head(nbrs)
         IN  PushEdgesUnfiltered(el, HeapPush(hp, <<Weight(el, v, nb), v, nb>>), v,
                                 Tail(nbrs), vis)

\* for neighbor in G.neighbors(v): if neighbor not in visited: heappush(...)
RECURSIVE PushEdges(_, _, _, _, _)
PushEdges(el, hp, v, nbrs, vis) ==
    IF nbrs = <<>> THEN hp
    ELSE LET nb == Head(nbrs)
         IN  IF nb \notin vis
             THEN PushEdges(el, HeapPush(hp, <<Weight(el, v, nb), v, nb>>), v, Tail(nbrs), vis)
             ELSE PushEdges(el, hp, v, Tail(nbrs), vis)

PRecord(label, mst, vis, hp, considered, status) ==
    [step |-> label, mst_edges |-> mst, visited |-> vis, heap |-> hp,
     considered_edge |-> considered, status |-> status]

\* while edges_heap and len(visited) < len(G.nodes())
LoopCond == heap # <<>> /\ Cardinality(visited) < N

\* Loop body up to its first yield: pop and yield 'considering' (lines 83-93).
PopAndConsider ==
    /\ LET p == HeapPop(heap)
       IN  /\ popped' = p.item
           /\ heap' = p.heap
           /\ pTrace' = Append(pTrace,
                  PRecord(<<"Considering edge", p.item[2], p.item[3], p.item[1]>>,
                          pMst, visited, p.heap, <<p.item[2], p.item[3]>>, "considering"))
    /\ pc' = "p_considering"
    /\ UNCHANGED <<edgeList, dsu, edges, kIdx, kMst, kTrace, start, visited, pMst, ufVars, vizVars>>

\* Loop exit: total weight and the 'done' record (lines 115-123).
YieldDone ==
    /\ pTrace' = Append(pTrace,
           PRecord(<<"Final MST Found! Total Weight:", TotalWeight(edgeList, pMst)>>,
                   pMst, visited, <<>>, None, "done"))
    /\ pc' = "p_done"
    /\ UNCHANGED <<edgeList, dsu, edges, kIdx, kMst, kTrace,
                   start, visited, pMst, heap, popped, ufVars, vizVars>>

\* Mutant: a start node outside the graph is taken to have no neighbours.
PrimInitialUnchecked(s) ==
    /\ pc = "p_new"
    /\ start' = s
    /\ visited' = {s}
    /\ pMst' = <<>>
    /\ pc' = "p_loop"
    /\ heap' = PushEdges(edgeList, <<>>, s, GNeighbors(edgeList, s), {})
    /\ pTrace' = Append(pTrace,
           PRecord(<<"Start with node", s>>, <<>>, {s}, heap', None, "initial"))
    /\ UNCHANGED <<edgeList, dsu, edges, kIdx, kMst, kTrace, popped, ufVars, vizVars>>

\* First resumption with start_node = s.  G.neighbors raises for a node that is
\* not in the graph, before anything is yielded (lines 63-80).
PrimInitial(s) ==
    /\ pc = "p_new"
    /\ start' = s
    /\ visited' = {s}
    /\ pMst' = <<>>
    /\ IF s \notin Nodes
       THEN /\ pc' = "p_error"
            /\ heap' = <<>>
            /\ pTrace' = pTrace
       ELSE /\ pc' = "p_loop"
            /\ heap' = PushEdges(edgeList, <<>>, s, GNeighbors(edgeList, s), {})
            /\ pTrace' = Append(pTrace,
                   PRecord(<<"Start with node", s>>, <<>>, {s}, heap', None, "initial"))
    /\ UNCHANGED <<edgeList, dsu, edges, kIdx, kMst, kTrace, popped, ufVars, vizVars>>

\* Resumed after 'initial' or 'added', the loop goes round.
PrimConsider ==
    /\ pc = "p_loop"
    /\ LoopCond
    /\ PopAndConsider

\* Resumed after 'initial' or 'added', the loop ends.
PrimDone ==
    /\ pc = "p_loop"
    /\ ~LoopCond
    /\ YieldDone

\* Mutant: the near endpoint u is marked visited instead of v.
PrimAddWrongVertex ==
    /\ pc = "p_considering"
    /\ popped[3] \notin visited
    /\ LET u == popped[2]
           v == popped[3]
       IN  /\ visited' = visited \cup {u}
           /\ pMst' = Append(pMst, <<u, v>>)
           /\ heap' = PushEdges(edgeList, heap, v, GNeighbors(edgeList, v), visited')
           /\ pTrace' = Append(pTrace,
                  PRecord(<<"Added node and edge", v, u, v>>, pMst', visited', heap',
                          <<u, v>>, "added"))
    /\ pc' = "p_loop"
    /\ UNCHANGED <<edgeList, dsu, edges, kIdx, kMst, kTrace, start, popped, ufVars, vizVars>>

\* Mutant: the 'added' record is yielded before v's edges are pushed.
PrimAddYieldsBeforePush ==
    /\ pc = "p_considering"
    /\ popped[3] \notin visited
    /\ LET u == popped[2]
           v == popped[3]
       IN  /\ visited' = visited \cup {v}
           /\ pMst' = Append(pMst, <<u, v>>)
           /\ heap' = PushEdges(edgeList, heap, v, GNeighbors(edgeList, v), visited')
           /\ pTrace' = Append(pTrace,
                  PRecord(<<"Added node and edge", v, u, v>>, pMst', visited', heap,
                          <<u, v>>, "added"))
    /\ pc' = "p_loop"
    /\ UNCHANGED <<edgeList, dsu, edges, kIdx, kMst, kTrace, start, popped, ufVars, vizVars>>

\* Resumed after 'considering', v is new: visit it, push its edges, yield
\* 'added' (lines 95-113).
PrimAdd ==
    /\ pc = "p_considering"
    /\ popped[3] \notin visited
    /\ LET u == popped[2]
           v == popped[3]
       IN  /\ visited' = visited \cup {v}
           /\ pMst' = Append(pMst, <<u, v>>)
           /\ heap' = PushEdges(edgeList, heap, v, GNeighbors(edgeList, v), visited')
           /\ pTrace' = Append(pTrace,
                  PRecord(<<"Added node and edge", v, u, v>>, pMst', visited', heap',
                          <<u, v>>, "added"))
    /\ pc' = "p_loop"
    /\ UNCHANGED <<edgeList, dsu, edges, kIdx, kMst, kTrace, start, popped, ufVars, vizVars>>

\* Resumed after 'considering', v is already visited: nothing is yielded for the
\* popped edge and the loop goes round to the next pop (lines 95, 82-93).
PrimStaleConsider ==
    /\ pc = "p_considering"
    /\ popped[3] \in visited
    /\ LoopCond
    /\ PopAndConsider

\* Resumed after 'considering', v is already visited and the loop ends.
PrimStaleDone ==
    /\ pc = "p_considering"
    /\ popped[3] \in visited
    /\ ~LoopCond
    /\ YieldDone

\* ------------------------------------------------------------------ Spec
\* __main__: the graph is built from edges_with_weights (lines 189-201).
GenIdle ==
    /\ pc = "k_new"
    /\ dsu = DSUInit
    /\ edges = <<>>
    /\ kIdx = 0
    /\ kMst = <<>>
    /\ kTrace = <<>>
    /\ start = 0
    /\ visited = {}
    /\ pMst = <<>>
    /\ heap = <<>>
    /\ popped = None
    /\ pTrace = <<>>

UFIdle ==
    /\ ufClass = "DSU"
    /\ ufParent = DSUInit
    /\ ufRank = [n \in Nodes |-> 0]
    /\ ufCall = None
    /\ ufRet = None

\* No window is open.
VizIdle ==
    /\ total_vertices = 0
    /\ vertex_positions = <<>>
    /\ viz_edges = <<>>
    /\ edge_items = {}
    /\ vertex_click_buffer = <<>>
    /\ placing_vertices_remaining = 0
    /\ is_animating = FALSE
    /\ status_var = <<>>
    /\ steps = <<>>
    /\ anim_mst_edges = <<>>
    /\ after_callback = None
    /\ kruskal_total_weight = None

Init ==
    /\ edgeList \in EdgeLists(MaxEdges)
    /\ GenIdle
    /\ UFIdle
    /\ VizIdle

Next ==
    \/ KruskalInitial
    \/ KruskalConsider
    \/ KruskalDecide
    \/ KruskalDone
    \/ KruskalStop
    \/ \E s \in 0 .. N : PrimInitial(s)
    \/ PrimConsider
    \/ PrimDone
    \/ PrimAdd
    \/ PrimStaleConsider
    \/ PrimStaleDone

Spec == Init /\ [][Next]_vars

\* The consumer's for loop keeps requesting the next record until the generator
\* is exhausted (visualize_algorithm, line 146): no enabled step is put off forever.
SpecLive == Spec /\ WF_vars(Next)

\* ---------------------------------------------------------------- SpecUF
\* A caller makes find and union calls, in any order, on a fresh object of
\* either class.
UFFind(x) ==
    /\ LET r == IF ufClass = "DSU" THEN DSUFind(ufParent, x) ELSE DSFind(ufParent, x)
       IN  /\ ufParent' = r.parent
           /\ ufRet' = r.root
    /\ ufCall' = <<"find", x>>
    /\ UNCHANGED <<ufClass, ufRank, genVars, vizVars>>

UFUnion(x, y) ==
    /\ IF ufClass = "DSU"
       THEN LET r == DSUUnion(ufParent, x, y)
            IN  /\ ufParent' = r.parent
                /\ ufRank' = ufRank
                /\ ufRet' = r.ret
       ELSE LET r == DSUnion(ufParent, ufRank, x, y)
            IN  /\ ufParent' = r.parent
                /\ ufRank' = r.rank
                /\ ufRet' = r.ret
    /\ ufCall' = <<"union", x, y>>
    /\ UNCHANGED <<ufClass, genVars, vizVars>>

InitUF ==
    /\ edgeList = <<>>
    /\ GenIdle
    /\ ufClass \in {"DSU", "DisjointSet"}
    /\ ufParent = IF ufClass = "DSU" THEN DSUInit ELSE DSInitParent
    /\ ufRank = DSInitRank
    /\ ufCall = None
    /\ ufRet = None
    /\ VizIdle

NextUF ==
    \/ \E x \in Nodes : UFFind(x)
    \/ \E x, y \in Nodes : UFUnion(x, y)

SpecUF == InitUF /\ [][NextUF]_vars

\* ------------------------------------------------- MSTVisualizer (SpecViz)
\* An Optional value: None, or a one-element tuple holding the value.
Some(x) == <<x>>

\* Python floats: a finite value, or nan.
Num(k) == [nan |-> FALSE, val |-> k]
NaN == [nan |-> TRUE, val |-> 0]

\* a < b on floats: every comparison with nan is False.
FloatLess(a, b) == ~a.nan /\ ~b.nan /\ a.val < b.val

\* a + b on floats.
FloatAdd(a, b) == IF a.nan \/ b.nan THEN NaN ELSE Num(a.val + b.val)

\* Canvas spots a click can land on; spots are more than 2 * RADIUS apart.
Spots == 1 .. MaxVertices

\* What simpledialog.askstring can return: None (cancelled) or the typed text.
WeightInputs == {None, Some("abc"), Some("-1"), Some("0"), Some("1"), Some("nan")}

\* float(w_str): the value, or ValueError (ok = FALSE).
ParseFloat(str) ==
    IF str = "nan" THEN [ok |-> TRUE, value |-> NaN]
    ELSE IF str = "-1" THEN [ok |-> TRUE, value |-> Num(0 - 1)]
    ELSE IF str = "0" THEN [ok |-> TRUE, value |-> Num(0)]
    ELSE IF str = "1" THEN [ok |-> TRUE, value |-> Num(1)]
    ELSE [ok |-> FALSE, value |-> NaN]

\* prompt_weight: None on cancel, on ValueError and when w < 0.
PromptWeight(w_str) ==
    IF w_str = None THEN None
    ELSE LET p == ParseFloat(w_str[1])
         IN  IF ~p.ok THEN None
             ELSE IF FloatLess(p.value, Num(0)) THEN None
             ELSE Some(p.value)

\* find_vertex_at: the first vertex, in insertion order, whose disc holds the point.
FindVertexAt(spot) ==
    LET hits == {vid \in DOMAIN vertex_positions : vertex_positions[vid] = spot}
    IN  IF hits = {} THEN None
        ELSE Some(CHOOSE vid \in hits : \A other \in hits : vid <= other)

\* on_canvas_click past its is_animating test (lines 108-137).
ClickBody(spot, w_str) ==
    IF placing_vertices_remaining > 0
    THEN LET vid == Cardinality(DOMAIN vertex_positions)
         IN  /\ vertex_positions' =
                    [i \in DOMAIN vertex_positions \cup {vid} |->
                        IF i = vid THEN spot ELSE vertex_positions[i]]
             /\ placing_vertices_remaining' = placing_vertices_remaining - 1
             /\ status_var' = IF placing_vertices_remaining' = 0
                              THEN <<"Vertices placed. Create edges by selecting two vertices.">>
                              ELSE <<"Place more vertices.", placing_vertices_remaining'>>
             /\ UNCHANGED <<viz_edges, edge_items, vertex_click_buffer>>
    ELSE LET clicked_vid == FindVertexAt(spot)
         IN  IF clicked_vid = None
             THEN UNCHANGED <<vertex_positions, placing_vertices_remaining, status_var,
                              viz_edges, edge_items, vertex_click_buffer>>
             ELSE LET buf == Append(vertex_click_buffer, clicked_vid[1])
                  IN  IF Len(buf) # 2
                      THEN /\ vertex_click_buffer' = buf
                           /\ UNCHANGED <<vertex_positions, placing_vertices_remaining,
                                          status_var, viz_edges, edge_items>>
                      ELSE LET u == buf[1]
                               v == buf[2]
                               key == <<IF u < v THEN u ELSE v, IF u < v THEN v ELSE u>>
                               w == PromptWeight(w_str)
                           IN  /\ vertex_click_buffer' = <<>>
                               /\ UNCHANGED <<vertex_positions, placing_vertices_remaining>>
                               /\ IF u = v \/ key \in edge_items \/ w = None
                                  THEN UNCHANGED <<status_var, viz_edges, edge_items>>
                                  ELSE /\ viz_edges' = Append(viz_edges, <<u, v, w[1]>>)
                                       /\ edge_items' = edge_items \cup {key}
                                       /\ status_var' = <<"Added edge", u, v, w[1]>>

\* Mutant: clicks are handled during an animation too.
OnCanvasClickUnguarded(spot, w_str) ==
    /\ ClickBody(spot, w_str)
    /\ UNCHANGED <<total_vertices, is_animating, steps, anim_mst_edges, after_callback,
                   kruskal_total_weight, genVars, ufVars>>

\* on_canvas_click: a left click on the canvas; w_str is what the weight prompt
\* returns if the click opens it.
OnCanvasClick(spot, w_str) ==
    /\ IF is_animating
       THEN UNCHANGED <<vertex_positions, placing_vertices_remaining, status_var,
                        viz_edges, edge_items, vertex_click_buffer>>
       ELSE ClickBody(spot, w_str)
    /\ UNCHANGED <<total_vertices, is_animating, steps, anim_mst_edges, after_callback,
                   kruskal_total_weight, genVars, ufVars>>

\* reset_colors (the Reset Colors button); colours are not part of the state.
ResetColors ==
    /\ status_var' = <<"Colors reset. Ready.">>
    /\ UNCHANGED <<total_vertices, vertex_positions, viz_edges, edge_items,
                   vertex_click_buffer, placing_vertices_remaining, is_animating, steps,
                   anim_mst_edges, after_callback, kruskal_total_weight, genVars, ufVars>>

\* sorted(self.edges, key=lambda e: e[2]) as CPython sorts a short list: the
\* leading run is found (a strictly descending one is reversed), then the other
\* elements are put in by binary insertion.  With finite keys this is the stable
\* ascending sort; with a nan key the outcome follows the comparisons made.
KeyLess(a, b) == FloatLess(a[3], b[3])

CountRun(s) ==
    IF Len(s) <= 1 THEN [n |-> Len(s), descending |-> FALSE]
    ELSE IF KeyLess(s[2], s[1])
    THEN [n |-> CHOOSE k \in 2 .. Len(s) :
                    /\ \A j \in 2 .. k : KeyLess(s[j], s[j - 1])
                    /\ k < Len(s) => ~KeyLess(s[k + 1], s[k]),
          descending |-> TRUE]
    ELSE [n |-> CHOOSE k \in 2 .. Len(s) :
                    /\ \A j \in 2 .. k : ~KeyLess(s[j], s[j - 1])
                    /\ k < Len(s) => KeyLess(s[k + 1], s[k]),
          descending |-> FALSE]

Reverse(s) == [i \in 1 .. Len(s) |-> s[Len(s) + 1 - i]]

\* The insertion point of x in out[l .. r - 1] (0-based), found by bisection.
RECURSIVE InsertionPoint(_, _, _, _)
InsertionPoint(out, x, l, r) ==
    IF l >= r THEN l
    ELSE LET p == l + ((r - l) \div 2)
         IN  IF KeyLess(x, out[p + 1])
             THEN InsertionPoint(out, x, l, p)
             ELSE InsertionPoint(out, x, p + 1, r)

RECURSIVE BinarySort(_, _)
BinarySort(out, rest) ==
    IF rest = <<>> THEN out
    ELSE LET l == InsertionPoint(out, Head(rest), 0, Len(out))
         IN  BinarySort(SubSeq(out, 1, l) \o <<Head(rest)>> \o SubSeq(out, l + 1, Len(out)),
                        Tail(rest))

SortedByKey(s) ==
    LET run == CountRun(s)
        lead == SubSeq(s, 1, run.n)
    IN  BinarySort(IF run.descending THEN Reverse(lead) ELSE lead,
                   SubSeq(s, run.n + 1, Len(s)))

\* animate_kruskal, lines 234-241: the steps list and mst_edges.
RECURSIVE KruskalSteps(_, _, _)
KruskalSteps(se, parent, rank) ==
    IF se = <<>> THEN [steps |-> <<>>, mst_edges |-> <<>>]
    ELSE LET e == Head(se)
             un == DSUnion(parent, rank, e[1], e[2])
             rest == KruskalSteps(Tail(se), un.parent, un.rank)
         IN  IF un.ret
             THEN [steps |-> <<<<"consider", e>>, <<"accept", e>>>> \o rest.steps,
                   mst_edges |-> <<e>> \o rest.mst_edges]
             ELSE [steps |-> <<<<"consider", e>>, <<"reject", e>>>> \o rest.steps,
                   mst_edges |-> rest.mst_edges]

\* sum(w for (_, _, w) in mst_edges)
RECURSIVE FloatSum(_)
FloatSum(m) == IF m = <<>> THEN Num(0) ELSE FloatAdd(FloatSum(SubSeq(m, 1, Len(m) - 1)), m[Len(m)][3])

\* do_step(i) of animate_kruskal: what it leaves in status_var, in the timer
\* and in kruskal_total_weight.  In the 'accept' branch `current_total += w`
\* (line 266) makes current_total a local of do_step that is read before it is
\* bound: UnboundLocalError is raised there, after the edge is coloured and
\* before the status is set or the next step is scheduled.
DoStep(st, mst, i, cur_status, cur_total) ==
    IF i >= Len(st)
    THEN [status |-> <<"Kruskal completed. Total weight (green) =", FloatSum(mst)>>,
          after |-> <<"on_complete">>,
          total |-> Some(FloatSum(mst)),
          raised |-> FALSE]
    ELSE LET action == st[i + 1][1]
             e == st[i + 1][2]
         IN  IF action = "consider"
             THEN [status |-> <<"Kruskal: considering edge", e>>,
                   after |-> <<"do_step", i + 1>>, total |-> cur_total, raised |-> FALSE]
             ELSE IF action = "accept"
             THEN [status |-> cur_status, after |-> None, total |-> cur_total,
                   raised |-> TRUE]
             ELSE [status |-> <<"Kruskal: rejected edge", e>>,
                   after |-> <<"do_step", i + 1>>, total |-> cur_total, raised |-> FALSE]

\* run_visualizations (the Run button): the three refusals, then is_animating,
\* reset_colors, animate_kruskal and its first do_step(0).
RunVisualizations ==
    /\ IF \/ is_animating
          \/ Cardinality(DOMAIN vertex_positions) # total_vertices
          \/ Len(viz_edges) = 0
       THEN UNCHANGED <<is_animating, status_var, steps, anim_mst_edges, after_callback,
                        kruskal_total_weight>>
       ELSE LET ks == KruskalSteps(SortedByKey(viz_edges),
                                   [i \in 0 .. (total_vertices - 1) |-> i],
                                   [i \in 0 .. (total_vertices - 1) |-> 0])
                r == DoStep(ks.steps, ks.mst_edges, 0, <<"Colors reset. Ready.">>,
                            kruskal_total_weight)
            IN  /\ is_animating' = TRUE
                /\ steps' = ks.steps
                /\ anim_mst_edges' = ks.mst_edges
                /\ status_var' = r.status
                /\ after_callback' = r.after
                /\ kruskal_total_weight' = r.total
    /\ UNCHANGED <<total_vertices, vertex_positions, viz_edges, edge_items,
                   vertex_click_buffer, placing_vertices_remaining, genVars, ufVars>>

\* The timer fires the do_step that root.after scheduled (lines 263, 268, 272).
\* (on_complete is scheduled only by do_step's final branch, line 255.)
AfterCallback ==
    /\ after_callback # None
    /\ after_callback[1] = "do_step"
    /\ LET r == DoStep(steps, anim_mst_edges, after_callback[2], status_var,
                       kruskal_total_weight)
       IN  /\ status_var' = r.status
           /\ after_callback' = r.after
           /\ kruskal_total_weight' = r.total
    /\ UNCHANGED <<total_vertices, vertex_positions, viz_edges, edge_items,
                   vertex_click_buffer, placing_vertices_remaining, is_animating, steps,
                   anim_mst_edges, genVars, ufVars>>

\* main() and MSTVisualizer.__init__: n is a positive integer.
InitViz ==
    /\ edgeList = <<>>
    /\ GenIdle
    /\ UFIdle
    /\ total_vertices \in 1 .. MaxVertices
    /\ vertex_positions = <<>>
    /\ viz_edges = <<>>
    /\ edge_items = {}
    /\ vertex_click_buffer = <<>>
    /\ placing_vertices_remaining = total_vertices
    /\ is_animating = FALSE
    /\ status_var = <<"Place vertices by clicking on canvas">>
    /\ steps = <<>>
    /\ anim_mst_edges = <<>>
    /\ after_callback = None
    /\ kruskal_total_weight = None

NextViz ==
    \/ \E spot \in Spots, w_str \in WeightInputs : OnCanvasClick(spot, w_str)
    \/ RunVisualizations
    \/ ResetColors
    \/ AfterCallback

SpecViz == InitViz /\ [][NextViz]_vars

\* Tk's mainloop runs every callback that root.after has scheduled once its
\* delay has passed; the user is not bound to click or press anything.
SpecVizLive == SpecViz /\ WF_vars(AfterCallback)

\* ------------------------------------------------ reference graph theory
\* The graph as mathematics: its edges as unordered pairs, reachability,
\* components, forests, and the minimum weight of a spanning forest found by
\* trying every subset of the edges.
PairSet(m) == {{m[i][1], m[i][2]} : i \in 1 .. Len(m)}

RECURSIVE ReachSet(_, _)
ReachSet(S, E) ==
    LET S2 == S \cup {v \in Nodes : \E u \in S : {u, v} \in E}
    IN  IF S2 = S THEN S ELSE ReachSet(S2, E)

Components(V, E) == {ReachSet({v}, E) : v \in V}

Touched(E) == UNION E

\* |E| = |vertices touched| - |components formed|
IsForest(E) == Cardinality(E) = Cardinality(Touched(E)) - Cardinality(Components(Touched(E), E))

NoRepeat(m) == \A i, j \in 1 .. Len(m) : i # j => {m[i][1], m[i][2]} # {m[j][1], m[j][2]}

SameConnectivity(E, F) == \A v \in Nodes : ReachSet({v}, E) = ReachSet({v}, F)

RECURSIVE SumWeights(_, _)
SumWeights(el, E) ==
    IF E = {} THEN 0
    ELSE LET e == CHOOSE e \in E : TRUE
             i == CHOOSE i \in 1 .. Len(el) : {el[i][1], el[i][2]} = e
         IN  el[i][3] + SumWeights(el, E \ {e})

\* Minimum weight over all spanning forests of the graph restricted to V.
RefMSTWeight(el, V) ==
    LET E == {e \in PairSet(el) : e \subseteq V}
        forests == {F \in SUBSET E : IsForest(F) /\ SameConnectivity(F, E)}
        weights == {SumWeights(el, F) : F \in forests}
    IN  CHOOSE w \in weights : \A x \in weights : w <= x

\* kTrace is complete at "k_done" and no later step touches it.
InKruskal == pc \in {"k_new", "k_loop", "k_considering", "k_done"}
KruskalFinished == pc = "k_done"

\* ----------------------------------------------------------------- claims
\* C1: the Kruskal trace is one initial record (empty MST, no considered edge),
\* then per edge a 'considering' record immediately followed by one 'added' or
\* 'rejected' record for the same edge, every graph edge taken exactly once in
\* non-decreasing weight, then one terminal 'done' record: 2E+2 records.
C1_KruskalTraceShape ==
    InKruskal =>
    LET E == Len(edgeList)
        n == Len(kTrace)
        considered(k) == kTrace[2 * k].considered_edge
    IN  /\ n <= 2 * E + 2
        /\ n >= 1 =>
              /\ kTrace[1].mst_edges = <<>>
              /\ kTrace[1].considered_edge = None
              /\ kTrace[1].status \notin {"considering", "added", "rejected", "done"}
        /\ \A i \in 2 .. n :
              IF i = 2 * E + 2 THEN kTrace[i].status = "done"
              ELSE IF i % 2 = 0 THEN kTrace[i].status = "considering"
              ELSE /\ kTrace[i].status \in {"added", "rejected"}
                   /\ kTrace[i].considered_edge = kTrace[i - 1].considered_edge
        /\ \A k, l \in 1 .. (IF n > 2 * E THEN E ELSE n \div 2) :
              /\ {considered(k)[1], considered(k)[2]} \in PairSet(edgeList)
              /\ k < l =>
                    /\ considered(k) # considered(l)
                    /\ Weight(edgeList, considered(k)[1], considered(k)[2])
                          <= Weight(edgeList, considered(l)[1], considered(l)[2])
        /\ KruskalFinished => n = 2 * E + 2

C1_Witness ==
    /\ pc = "k_done"
    /\ Len(edgeList) = MaxEdges
    /\ \E i, j \in 1 .. Len(kTrace) : kTrace[i].status = "added" /\ kTrace[j].status = "rejected"

\* C2: when the Kruskal producer finishes, on a connected or disconnected graph,
\* its MST edges are a minimum spanning forest: acyclic, connecting exactly the
\* vertices the graph connects, with the terminal step's total weight equal to
\* the reference minimum; until then the loop always has a next step to take.
C2_KruskalMinimumSpanningForest ==
    /\ KruskalFinished =>
          LET last == kTrace[Len(kTrace)]
              F == PairSet(last.mst_edges)
          IN  /\ last.status = "done"
              /\ NoRepeat(last.mst_edges)
              /\ IsForest(F)
              /\ SameConnectivity(F, PairSet(edgeList))
              /\ last.step[2] = RefMSTWeight(edgeList, Nodes)
              /\ last.step[2] = SumWeights(edgeList, F)
    /\ pc = "k_loop" => ENABLED (KruskalConsider \/ KruskalDone)
    /\ pc = "k_considering" => ENABLED KruskalDecide

C2_Witness ==
    /\ pc = "k_done"
    /\ Cardinality(Components(Nodes, PairSet(edgeList))) > 1
    /\ Len(kMst) >= 2
    /\ Len(kMst) < Len(edgeList)

\* C3: in every record of the Kruskal trace the MST edges so far are a forest:
\* no edge twice, and the number of edges is the number of vertices they touch
\* minus the number of components they form.
C3_KruskalForestInvariant ==
    InKruskal =>
    \A i \in 1 .. Len(kTrace) :
        /\ NoRepeat(kTrace[i].mst_edges)
        /\ IsForest(PairSet(kTrace[i].mst_edges))

C3_Witness ==
    /\ Len(kTrace) > 0
    /\ kTrace[Len(kTrace)].status = "added"
    /\ Len(kTrace[Len(kTrace)].mst_edges) = N - 1
    /\ \E i \in 1 .. Len(kTrace) : kTrace[i].status = "rejected"

InPrim == pc \in {"p_loop", "p_considering", "p_done", "p_error"}
StartComponent == ReachSet({start}, PairSet(edgeList))

\* C4: when the Prim producer finishes from a valid start vertex, its MST edges
\* are a spanning tree of the start vertex's component, the terminal total is
\* the reference minimum for that component, and on a connected graph it is the
\* total of the Kruskal producer's terminal record for the same graph.
C4_PrimMinimumSpanningTree ==
    pc = "p_done" =>
        LET last == pTrace[Len(pTrace)]
            T == PairSet(last.mst_edges)
        IN  /\ last.status = "done"
            /\ NoRepeat(last.mst_edges)
            /\ T \subseteq PairSet(edgeList)
            /\ IsForest(T)
            /\ ReachSet({start}, T) = StartComponent
            /\ Cardinality(T) = Cardinality(StartComponent) - 1
            /\ last.step[2] = SumWeights(edgeList, T)
            /\ last.step[2] = RefMSTWeight(edgeList, StartComponent)
            /\ StartComponent = Nodes => last.step[2] = kTrace[Len(kTrace)].step[2]

C4_Witness ==
    /\ pc = "p_done"
    /\ StartComponent = Nodes
    /\ Len(edgeList) = MaxEdges
    /\ \E i, j \in 1 .. Len(edgeList) : edgeList[i][3] # edgeList[j][3]

\* C5: in the Prim trace the visited set never shrinks, grows by exactly one
\* vertex at each 'added' record and is unchanged at every other record, and
\* at the terminal record it holds every vertex iff every vertex is reachable
\* from the start vertex.
C5_PrimVisitedGrowth ==
    InPrim =>
        /\ \A i \in 1 .. Len(pTrace) - 1 :
              LET a == pTrace[i].visited
                  b == pTrace[i + 1].visited
              IN  /\ a \subseteq b
                  /\ IF pTrace[i + 1].status = "added"
                     THEN Cardinality(b) = Cardinality(a) + 1
                     ELSE b = a
        /\ Len(pTrace) >= 1 => pTrace[1].visited = {start}
        /\ pc = "p_done" =>
              (pTrace[Len(pTrace)].visited = Nodes <=> StartComponent = Nodes)

C5_Witness ==
    /\ pc = "p_done"
    /\ Cardinality(visited) = 3
    /\ \E i \in 1 .. Len(pTrace) - 1 :
          pTrace[i].status = "considering" /\ pTrace[i + 1].status # "added"

\* C6: with a start vertex that is not a vertex of the graph the Prim producer
\* fails on its first resumption and no record at all is delivered; it fails
\* for no other start vertex.
C6_PrimInvalidStart ==
    InPrim =>
        /\ start \notin Nodes => pc = "p_error" /\ pTrace = <<>>
        /\ pc = "p_error" => start \notin Nodes

C6_Witness ==
    /\ pc = "p_error"
    /\ start = N
    /\ edgeList # <<>>

\* The queue entry a record's considered edge was popped as.
PoppedEntry(r) ==
    <<Weight(edgeList, r.considered_edge[1], r.considered_edge[2]),
      r.considered_edge[1], r.considered_edge[2]>>

\* C7: in the Prim trace every 'considering' record is immediately followed by
\* one decision record for the same edge, 'added' if the far endpoint was
\* unvisited and 'skipped'/'rejected' if it was visited, and a skipped edge
\* never comes back into the queue.
C7_PrimConsideringDecided ==
    InPrim =>
        \A i \in 1 .. Len(pTrace) - 1 :
            pTrace[i].status = "considering" =>
                LET v == pTrace[i].considered_edge[2]
                    next == pTrace[i + 1]
                IN  /\ next.considered_edge = pTrace[i].considered_edge
                    /\ IF v \notin pTrace[i].visited
                       THEN next.status = "added"
                       ELSE /\ next.status \in {"skipped", "rejected"}
                            /\ \A j \in (i + 1) .. Len(pTrace) :
                                  \A k \in 1 .. Len(pTrace[j].heap) :
                                      pTrace[j].heap[k] # PoppedEntry(pTrace[i])

\* A popped edge whose far endpoint was already visited, with the run finished.
C7_Witness ==
    /\ pc = "p_done"
    /\ \E i \in 1 .. Len(pTrace) :
          /\ pTrace[i].status = "considering"
          /\ pTrace[i].considered_edge[2] \in pTrace[i].visited

\* C8 as stated: among the queue entries of least weight, the one pushed first
\* is the one popped.
C8_PopsFirstInserted ==
    [][pc' = "p_considering" =>
          \E i \in 1 .. Len(heap) :
              /\ popped' = heap[i]
              /\ \A j \in 1 .. Len(heap) : heap[i][1] <= heap[j][1]
              /\ \A j \in 1 .. (i - 1) : heap[j][1] # heap[i][1]]_vars

\* C8 amended: the entry popped is the least (weight, u, v) tuple of the queue:
\* among entries of least weight the one with the smallest near endpoint u,
\* then the smallest far endpoint v, whatever the order they were pushed in.
C8_PopsLeastTuple ==
    [][pc' = "p_considering" =>
          \E i \in 1 .. Len(heap) :
              /\ popped' = heap[i]
              /\ heap' = SubSeq(heap, 1, i - 1) \o SubSeq(heap, i + 1, Len(heap))
              /\ \A j \in 1 .. Len(heap) : j # i => TupleLess(heap[i], heap[j])]_vars

\* A pop that passed over an entry of the same weight pushed earlier.
C8_Witness ==
    /\ pc = "p_considering"
    /\ LET before == pTrace[Len(pTrace) - 1]
       IN  /\ before.status \in {"initial", "added"}
           /\ \E i, j \in 1 .. Len(before.heap) :
                 /\ i < j
                 /\ before.heap[j] = popped
                 /\ before.heap[i][1] = popped[1]

\* Position of the edge joining u and v in the order the graph reports its edges.
GEdgesPos(u, v) ==
    CHOOSE i \in 1 .. Len(GEdges(edgeList)) :
        {GEdges(edgeList)[i][1], GEdges(edgeList)[i][2]} = {u, v}

\* C9: the Kruskal producer considers the edges in non-decreasing weight, and
\* two edges of equal weight in the order in which the graph lists them.
C9_KruskalStableOrder ==
    InKruskal =>
        \A i, j \in 1 .. Len(kTrace) :
            (i < j /\ kTrace[i].status = "considering" /\ kTrace[j].status = "considering") =>
                LET a == kTrace[i].considered_edge
                    b == kTrace[j].considered_edge
                    wa == Weight(edgeList, a[1], a[2])
                    wb == Weight(edgeList, b[1], b[2])
                IN  /\ wa <= wb
                    /\ wa = wb => GEdgesPos(a[1], a[2]) < GEdgesPos(b[1], b[2])

C9_Witness ==
    /\ pc = "k_done"
    /\ LET g == GEdges(edgeList)
       IN  /\ \E i, j \in 1 .. Len(g) : i < j /\ g[i][3] > g[j][3]
           /\ \E i, j \in 1 .. Len(g) : i < j /\ g[i][3] = g[j][3]
           /\ g # edgeList

\* The partition of the vertices a parent map stands for.
RECURSIVE RootOf(_, _)
RootOf(parent, x) == IF parent[x] = x THEN x ELSE RootOf(parent, parent[x])

ClassOf(parent, x) == {y \in Nodes : RootOf(parent, y) = RootOf(parent, x)}
Partition(parent) == {ClassOf(parent, x) : x \in Nodes}

\* C10: union(x, y) returns false exactly when x and y were already in one
\* component, and then the partition and every rank are as before; it returns
\* true exactly when the components were distinct, and then those two are one
\* component and every other component is as before.
C10_UnionFrame ==
    [][ufCall'[1] = "union" =>
          LET Cx == ClassOf(ufParent, ufCall'[2])
              Cy == ClassOf(ufParent, ufCall'[3])
          IN  /\ ufRet' \in BOOLEAN
              /\ ufRet' = FALSE <=> Cx = Cy
              /\ ufRet' = FALSE =>
                    /\ Partition(ufParent') = Partition(ufParent)
                    /\ ufRank' = ufRank
              /\ ufRet' = TRUE =>
                    Partition(ufParent') =
                        (Partition(ufParent) \ {Cx, Cy}) \cup {Cx \cup Cy}]_vars

C10_Witness ==
    /\ ufClass = "DisjointSet"
    /\ ufCall # None
    /\ ufCall[1] = "union"
    /\ ufCall[2] # ufCall[3]
    /\ ufRet = FALSE
    /\ ufParent[ufCall[2]] # ufCall[2]
    /\ ufParent[ufCall[3]] # ufCall[3]
    /\ \E n \in Nodes : ufRank[n] = 2

\* C11 as stated, for the class that keeps ranks: a merge hangs the root of
\* lower rank under the root of higher rank, and on equal rank the root of x
\* under the root of y, whose rank then grows by one.
C11_TieUnderRootOfY ==
    [][(ufClass = "DisjointSet" /\ ufCall'[1] = "union" /\ ufRet' = TRUE) =>
          LET rx == RootOf(ufParent, ufCall'[2])
              ry == RootOf(ufParent, ufCall'[3])
          IN  IF ufRank[rx] < ufRank[ry]
              THEN ufParent'[rx] = ry /\ ufParent'[ry] = ry /\ ufRank' = ufRank
              ELSE IF ufRank[rx] > ufRank[ry]
              THEN ufParent'[ry] = rx /\ ufParent'[rx] = rx /\ ufRank' = ufRank
              ELSE /\ ufParent'[rx] = ry
                   /\ ufParent'[ry] = ry
                   /\ ufRank' = [ufRank EXCEPT ![ry] = ufRank[ry] + 1]]_vars

\* C11 amended: DisjointSet.union hangs the root of lower rank under the root of
\* higher rank, and on equal rank the root of y under the root of x, whose rank
\* then grows by one; DSU.union keeps no ranks and always hangs the root of x
\* under the root of y.
C11_UnionByRank ==
    [][(ufCall'[1] = "union" /\ ufRet' = TRUE) =>
          LET rx == RootOf(ufParent, ufCall'[2])
              ry == RootOf(ufParent, ufCall'[3])
          IN  IF ufClass = "DSU"
              THEN ufParent'[rx] = ry /\ ufParent'[ry] = ry /\ ufRank' = ufRank
              ELSE IF ufRank[rx] < ufRank[ry]
              THEN ufParent'[rx] = ry /\ ufParent'[ry] = ry /\ ufRank' = ufRank
              ELSE IF ufRank[rx] > ufRank[ry]
              THEN ufParent'[ry] = rx /\ ufParent'[rx] = rx /\ ufRank' = ufRank
              ELSE /\ ufParent'[ry] = rx
                   /\ ufParent'[rx] = rx
                   /\ ufRank' = [ufRank EXCEPT ![rx] = ufRank[rx] + 1]]_vars

\* Two roots of rank 1 have just been merged: y's went under x's.
C11_Witness ==
    /\ ufClass = "DisjointSet"
    /\ ufCall # None
    /\ ufCall[1] = "union"
    /\ ufRet = TRUE
    /\ ufParent[ufCall[3]] = ufCall[2]
    /\ ufParent[ufCall[2]] = ufCall[2]
    /\ ufRank[ufCall[2]] = 2
    /\ ufRank[ufCall[3]] = 1

\* The vertices on the parent path from x up to and including its root.
RECURSIVE PathOf(_, _)
PathOf(parent, x) == IF parent[x] = x THEN {x} ELSE {x} \cup PathOf(parent, parent[x])

\* C12: find(x) returns the root of x's component; afterwards every vertex that
\* lay on the parent path from x to the root has the root as its direct parent,
\* every other link and every rank is as before, and every vertex resolves to
\* the root it resolved to before.
C12_FindCompressesPath ==
    [][ufCall'[1] = "find" =>
          LET x == ufCall'[2]
              root == RootOf(ufParent, x)
          IN  /\ ufRet' = root
              /\ \A v \in PathOf(ufParent, x) : ufParent'[v] = root
              /\ \A v \in Nodes \ PathOf(ufParent, x) : ufParent'[v] = ufParent[v]
              /\ \A v \in Nodes : RootOf(ufParent', v) = RootOf(ufParent, v)
              /\ ufRank' = ufRank]_vars

\* find has returned a root of rank 2, and nothing is left below depth 1.
C12_Witness ==
    /\ ufClass = "DisjointSet"
    /\ ufCall # None
    /\ ufCall[1] = "find"
    /\ ufRet # ufCall[2]
    /\ ufRank[ufRet] = 2
    /\ \A v \in Nodes : ufParent[v] = ufRet

\* Following parent links k times from x.
RECURSIVE Ancestor(_, _, _)
Ancestor(parent, x, k) == IF k = 0 THEN x ELSE Ancestor(parent, parent[x], k - 1)

\* C13: after any sequence of find and union calls the parent links have no
\* cycle but the self-loops at the roots (N - 1 links from any vertex end at a
\* root), and what find returned is a root reachable from its argument.
C13_ParentLinksAcyclic ==
    /\ \A x \in Nodes : ufParent[x] \in Nodes
    /\ \A x \in Nodes :
          LET top == Ancestor(ufParent, x, N - 1) IN ufParent[top] = top
    /\ (ufCall # None /\ ufCall[1] = "find") =>
          /\ ufParent[ufRet] = ufRet
          /\ \E k \in 0 .. (N - 1) : Ancestor(ufParent, ufCall[2], k) = ufRet

\* find has answered while a chain of two links stands elsewhere.
C13_Witness ==
    /\ ufCall # None
    /\ ufCall[1] = "find"
    /\ ufRet # ufCall[2]
    /\ \E a, b \in Nodes : a # b /\ ufParent[a] = b /\ ufParent[b] # b

\* A record with status 'done' stands only at the end of the trace.
DoneOnlyLast(tr) == \A i \in 1 .. Len(tr) : tr[i].status = "done" => i = Len(tr)

\* The trace holds exactly one 'done' record, and it is the last one.
EndsWithDone(tr) == tr # <<>> /\ tr[Len(tr)].status = "done" /\ DoneOnlyLast(tr)

\* C15: a consumer that keeps requesting records reaches the end of both
\* sequences (the Prim one whenever the start vertex is valid); the Prim trace
\* never holds more than 2*|E| + |V| + 1 records; no trace ever holds a 'done'
\* record before its end, and a finished trace ends with its only 'done' record.
C15_TracesEndWithDone ==
    /\ [](/\ DoneOnlyLast(kTrace)
          /\ DoneOnlyLast(pTrace)
          /\ Len(pTrace) <= 2 * Len(edgeList) + N + 1
          /\ (pc \in {"k_new", "k_loop", "k_considering"}) =>
                 \A i \in 1 .. Len(kTrace) : kTrace[i].status # "done"
          /\ (pc \in {"p_new", "p_loop", "p_considering"}) =>
                 \A i \in 1 .. Len(pTrace) : pTrace[i].status # "done"
          /\ (pc \notin {"k_new", "k_loop", "k_considering"}) => EndsWithDone(kTrace)
          /\ pc = "p_done" => EndsWithDone(pTrace)
          /\ pc = "p_error" => start \notin Nodes)
    /\ <>(pc = "k_done")
    /\ <>(pc \in {"p_done", "p_error"})

\* A Prim run on a graph with a stale pop has ended with its 'done' record.
C15_Witness ==
    /\ pc = "p_done"
    /\ EndsWithDone(kTrace)
    /\ EndsWithDone(pTrace)
    /\ Len(pTrace) = Len(edgeList) + Cardinality(visited) + 1
    /\ Len(edgeList) >= Cardinality(visited)

\* The MST sequence of record i + 1 against that of record i: extended by the
\* considered edge at 'added', equal otherwise; the total never goes down.
AppendOnly(tr) ==
    /\ tr # <<>> => tr[1].mst_edges = <<>>
    /\ \A i \in 1 .. (Len(tr) - 1) :
          /\ IF tr[i + 1].status = "added"
             THEN tr[i + 1].mst_edges = Append(tr[i].mst_edges, tr[i + 1].considered_edge)
             ELSE tr[i + 1].mst_edges = tr[i].mst_edges
          /\ TotalWeight(edgeList, tr[i + 1].mst_edges) >= TotalWeight(edgeList, tr[i].mst_edges)

\* C16: across consecutive records of either trace the MST edge sequence changes
\* only at an 'added' record, where exactly the considered edge is appended at
\* the end; at every other record it equals the previous record's sequence; the
\* running total weight never decreases.
C16_MstAppendOnly ==
    /\ InKruskal => AppendOnly(kTrace)
    /\ InPrim => AppendOnly(pTrace)

\* Both traces are complete, Kruskal's with a rejection and Prim's with an edge
\* added after a stale pop.
C16_Witness ==
    /\ pc = "p_done"
    /\ \E i \in 1 .. Len(kTrace) : kTrace[i].status = "rejected"
    /\ \E i \in 2 .. (Len(pTrace) - 1) :
          /\ pTrace[i].status = "considering"
          /\ pTrace[i - 1].status = "considering"
          /\ pTrace[i + 1].status = "added"

\* C17 as stated: the queue carried by an 'added' record equals the queue carried
\* by the 'considering' record before it.
C17_AddedBeforePush ==
    InPrim =>
        \A i \in 1 .. (Len(pTrace) - 1) :
            pTrace[i + 1].status = "added" =>
                /\ pTrace[i].status = "considering"
                /\ pTrace[i + 1].heap = pTrace[i].heap

\* The queue entries for the edges from v to its neighbours outside vis.
EntriesFrom(v, vis) ==
    {<<Weight(edgeList, v, n), v, n>> :
        n \in {m \in Nodes \ vis : {v, m} \in PairSet(edgeList)}}

\* C17 amended: the 'added' record for edge (u, v) is emitted after v is marked
\* visited, (u, v) is appended to the MST and the edges from v to its unvisited
\* neighbours are pushed: its queue is the queue of the preceding 'considering'
\* record followed by one entry for each neighbour of v that is unvisited then.
C17_AddedAfterPush ==
    InPrim =>
        \A i \in 1 .. (Len(pTrace) - 1) :
            pTrace[i + 1].status = "added" =>
                LET a == pTrace[i]
                    b == pTrace[i + 1]
                    v == b.considered_edge[2]
                    new == SubSeq(b.heap, Len(a.heap) + 1, Len(b.heap))
                IN  /\ a.status = "considering"
                    /\ a.considered_edge = b.considered_edge
                    /\ b.visited = a.visited \cup {v}
                    /\ v \notin a.visited
                    /\ b.mst_edges = Append(a.mst_edges, b.considered_edge)
                    /\ Len(b.heap) >= Len(a.heap)
                    /\ SubSeq(b.heap, 1, Len(a.heap)) = a.heap
                    /\ {new[k] : k \in 1 .. Len(new)} = EntriesFrom(v, b.visited)
                    /\ Len(new) = Cardinality(EntriesFrom(v, b.visited))

\* An 'added' record carries entries that the 'considering' record before it
\* does not.
C17_Witness ==
    /\ InPrim
    /\ \E i \in 1 .. (Len(pTrace) - 1) :
          /\ pTrace[i + 1].status = "added"
          /\ Len(pTrace[i + 1].heap) > Len(pTrace[i].heap)
          /\ pTrace[i].heap # <<>>

\* The entries pushed just before record i of a Prim trace was yielded.
Pushed(tr, i) ==
    IF i = 1 THEN tr[1].heap
    ELSE IF tr[i].status = "added"
         THEN SubSeq(tr[i].heap, Len(tr[i - 1].heap) + 1, Len(tr[i].heap))
         ELSE <<>>

\* All pushes of the run so far, each with the record it preceded.
PushLog(tr) == UNION {{<<i, k>> : k \in 1 .. Len(Pushed(tr, i))} : i \in 1 .. Len(tr)}

\* C18: every queue entry (w, u, v) has u visited and w the graph's weight of
\* edge (u, v), in the live queue and in the queue of every record; an entry is
\* pushed only with v unvisited at that moment; no graph edge is pushed twice
\* in a run.
C18_QueueEntries ==
    (pc \in {"p_loop", "p_considering", "p_done"}) =>
        /\ \A k \in 1 .. Len(heap) :
              /\ heap[k][2] \in visited
              /\ {heap[k][2], heap[k][3]} \in PairSet(edgeList)
              /\ heap[k][1] = Weight(edgeList, heap[k][2], heap[k][3])
        /\ \A i \in 1 .. Len(pTrace) : \A k \in 1 .. Len(pTrace[i].heap) :
              LET e == pTrace[i].heap[k]
              IN  /\ e[2] \in pTrace[i].visited
                  /\ {e[2], e[3]} \in PairSet(edgeList)
                  /\ e[1] = Weight(edgeList, e[2], e[3])
        /\ \A p \in PushLog(pTrace) :
              LET e == Pushed(pTrace, p[1])[p[2]]
              IN  /\ e[3] \notin pTrace[p[1]].visited
                  /\ \A q \in PushLog(pTrace) :
                        LET f == Pushed(pTrace, q[1])[q[2]]
                        IN  {e[2], e[3]} = {f[2], f[3]} => p = q

\* Pushes were made at the start and after an added vertex, and the queue
\* holds entries leaving two different visited vertices.
C18_Witness ==
    /\ pc = "p_loop"
    /\ \E i \in 2 .. Len(pTrace) : Pushed(pTrace, i) # <<>>
    /\ Pushed(pTrace, 1) # <<>>
    /\ \E j, k \in 1 .. Len(heap) : heap[j][2] # heap[k][2]
    /\ \E k \in 1 .. Len(heap) : heap[k][3] \in visited

\* w >= 0 on a float (False for nan).
NonNegative(w) == ~w.nan /\ w.val >= 0

\* Vertex ids are 0 .. k-1 with k <= total_vertices; every edge joins two
\* distinct placed vertices; no unordered pair carries two edges.
GraphStructure ==
    LET ids == DOMAIN vertex_positions
    IN  /\ Cardinality(ids) <= total_vertices
        /\ ids = 0 .. (Cardinality(ids) - 1)
        /\ placing_vertices_remaining = total_vertices - Cardinality(ids)
        /\ \A i \in 1 .. Len(viz_edges) :
              /\ viz_edges[i][1] # viz_edges[i][2]
              /\ {viz_edges[i][1], viz_edges[i][2]} \subseteq ids
              /\ viz_edges[i][1] < total_vertices
              /\ viz_edges[i][2] < total_vertices
        /\ \A i, j \in 1 .. Len(viz_edges) :
              {viz_edges[i][1], viz_edges[i][2]} = {viz_edges[j][1], viz_edges[j][2]} => i = j
        /\ edge_items = {<<IF e[1] < e[2] THEN e[1] ELSE e[2],
                           IF e[1] < e[2] THEN e[2] ELSE e[1]>> :
                             e \in {viz_edges[i] : i \in 1 .. Len(viz_edges)}}

\* C19: after any sequence of canvas clicks and weight prompts the graph is
\* well-formed: vertex ids are exactly 0 .. k-1 with k <= total_vertices, every
\* edge joins two distinct placed vertices with ids below total_vertices, every
\* edge weight is non-negative, and no unordered pair carries two edges.
C19_GraphWellFormed ==
    /\ GraphStructure
    /\ \A i \in 1 .. Len(viz_edges) : NonNegative(viz_edges[i][3])

\* All vertices are placed and every pair of them has been joined.
C19_Witness ==
    /\ total_vertices = MaxVertices
    /\ placing_vertices_remaining = 0
    /\ Len(viz_edges) = (MaxVertices * (MaxVertices - 1)) \div 2
    /\ vertex_click_buffer # <<>>

\* C20: while is_animating is true no vertex and no edge is added and no run is
\* started (no handler calls animate_kruskal, which would schedule do_step(1)
\* afresh), whatever event comes next; and is_animating becomes true only in a
\* step taken with exactly total_vertices vertices placed and at least one edge.
C20_GraphFixedWhileAnimating ==
    [][/\ is_animating =>
             /\ vertex_positions' = vertex_positions
             /\ viz_edges' = viz_edges
             /\ edge_items' = edge_items
             /\ vertex_click_buffer' = vertex_click_buffer
             /\ steps' = steps
             /\ anim_mst_edges' = anim_mst_edges
             /\ after_callback' = <<"do_step", 1>> => after_callback = <<"do_step", 1>>
       /\ (~is_animating /\ is_animating') =>
             /\ Cardinality(DOMAIN vertex_positions) = total_vertices
             /\ Len(viz_edges) >= 1
             /\ vertex_positions' = vertex_positions
             /\ viz_edges' = viz_edges
             /\ after_callback' = <<"do_step", 1>>
       /\ (~is_animating /\ ~is_animating') =>
             /\ after_callback' = None
             /\ steps' = steps]_vars

\* A run is in progress on a full graph, its first timer still pending, and
\* Reset Colors has been pressed meanwhile.
C20_Witness ==
    /\ is_animating
    /\ Len(viz_edges) >= 2
    /\ after_callback = <<"do_step", 1>>
    /\ status_var = <<"Colors reset. Ready.">>

\* C21: once run_visualizations has started a run, the chain of scheduled
\* callbacks plays on until finish_animation: is_animating, once true, becomes
\* false again (and until then a callback is always pending or running).
C21_RunReachesFinish == is_animating ~> ~is_animating

\* A run was started, its do_step(1) has fired, and nothing is scheduled.
C21_Witness ==
    /\ is_animating
    /\ after_callback = None
    /\ steps # <<>>
    /\ status_var[1] = "Kruskal: considering edge"

\* The sum of the weights of the edges accepted in the first k steps.
RECURSIVE AcceptedTotal(_, _)
AcceptedTotal(st, k) ==
    IF k = 0 THEN Num(0)
    ELSE IF st[k][1] = "accept"
         THEN FloatAdd(AcceptedTotal(st, k - 1), st[k][2][3])
         ELSE AcceptedTotal(st, k - 1)

\* C22: when the Kruskal animation plays an 'accept' step the status reports
\* the accepted edge with a running total equal to the sum of the weights of
\* the edges accepted so far, and a recorded kruskal_total_weight is the sum of
\* the weights of mst_edges, each edge once.
C22_ReportedTotals ==
    [][/\ (/\ after_callback # None
           /\ after_callback[1] = "do_step"
           /\ after_callback' # after_callback
           /\ after_callback[2] < Len(steps)
           /\ steps[after_callback[2] + 1][1] = "accept") =>
              status_var' = <<"Kruskal: accepted edge", steps[after_callback[2] + 1][2],
                              AcceptedTotal(steps, after_callback[2] + 1)>>
       /\ kruskal_total_weight' # None =>
              kruskal_total_weight' = Some(FloatSum(anim_mst_edges'))]_vars

\* The animation of a graph whose spanning tree has two edges has played its
\* first 'accept' step; no total is recorded.
C22_Witness ==
    /\ is_animating
    /\ after_callback = None
    /\ Len(anim_mst_edges) >= 2
    /\ kruskal_total_weight = None

====
